---- MODULE Spec2Model ----
(***************************************************************************)
(* Runner / Scheduler of meilisync_admin/scheduler.py.                     *)
(*                                                                         *)
(* A Runner instance is created by every Scheduler._start_source call;     *)
(* instance r keeps its own lock, queue, EventCollections, statistics and  *)
(* current_progress, while the progress store, the Meilisearch indexes and *)
(* the SyncLog table are shared by all instances of a source.  The Runners *)
(* of one source, Followed, are followed through their code; of the        *)
(* Runners of any other source the model keeps the task: it bootstraps,    *)
(* runs, fails or is cancelled.                                            *)
(*                                                                         *)
(* A step of the model is the code a coroutine runs between two awaits,    *)
(* together with the completion of the awaited call that precedes it.      *)
(* The progress store takes the writes in the order _save_progress() is    *)
(* called; an index write takes effect when the call returns.              *)
(*                                                                         *)
(* Spec follows one Runner on sources with one Sync per table, SpecFanOut  *)
(* the same Runner on sources with two Syncs of one table, SpecRestart the *)
(* Runners of a source that Scheduler.restart_source replaces, SpecFair    *)
(* one Runner whose awaits under the lock return, and SpecScheduler the    *)
(* registry of the Scheduler over several sources.                         *)
(***************************************************************************)
EXTENDS Integers, Sequences, FiniteSets, TLC

\* ------------------------------------------------------------------ bounds

\* Number of change events the source's replication log holds at most.
MaxEvents == 3

\* Number of Runner instances (Scheduler._start_source calls) of a behaviour.
MaxRunners == 2

\* Number of index writes that fail in a behaviour.
MaxFailures == 1

\* Number of primary keys a Source can have.
MaxSources == 2

\* --------------------------------------------------------------- constants

\* insert_size / insert_interval of a Meilisearch row that leaves it unset.
None == 0

Runners == 1..MaxRunners

\* source.pk of the sources; Followed is the source whose Sync rows, log,
\* progress store and indexes the state holds.
Pks == 1..MaxSources

Followed == 1

\* EventType members the statistics are keyed by.
EventKinds == {"create", "delete"}

\* What the connector yields: an Event of a table, or a ProgressEvent, which
\* carries a progress and no table.
Created(tbl) == [type |-> "create", table |-> tbl]
Deleted(tbl) == [type |-> "delete", table |-> tbl]
ProgressOnly == [type |-> "progress", table |-> "none"]

EventTypes ==
    { Created("users"), Deleted("users"), Created("other"), ProgressOnly }

\* An enabled Sync row with the batching parameters of its Meilisearch row.
SyncRow(tbl, full, size, interval) ==
    [table |-> tbl, full_sync |-> full, insert_size |-> size,
     insert_interval |-> interval]

\* A source: its enabled Sync rows, in the order Sync.filter returns them
\* (the position of a row is its primary key), and the changes its database
\* undergoes.
Source(rows, evs) == [syncs |-> rows, changes |-> evs]

\* Sources as the Sync table holds them, one Sync per table (unique_together
\* of source and table): insert_interval alone; insert_size alone; a sync of
\* users with insert_size and insert_interval beside an unbatched sync of
\* other.
Sources ==
    { Source(<< SyncRow("users", FALSE, None, 1) >>, EventTypes),
      Source(<< SyncRow("users", TRUE, 2, None) >>,
             { Created("users"), ProgressOnly }),
      Source(<< SyncRow("users", FALSE, 2, 1),
                SyncRow("other", TRUE, None, None) >>,
             { Created("users"), Created("other"), ProgressOnly }) }

\* Fan-out: two syncs of one table, which tables_sync_settings_map keeps in
\* a list; a sync flushed by size and an unbatched sync, in either order,
\* and a sync with a flush timer and an unbatched sync.
FanOutSources ==
    { Source(<< SyncRow("users", TRUE, 3, None),
                SyncRow("users", FALSE, None, None) >>, EventTypes),
      Source(<< SyncRow("users", FALSE, None, None),
                SyncRow("users", FALSE, 3, None) >>, EventTypes),
      Source(<< SyncRow("users", FALSE, 2, 1),
                SyncRow("users", TRUE, None, None) >>,
             { Created("users"), ProgressOnly }) }

\* The sources Scheduler.restart_source is followed on.
RestartSources ==
    { Source(<< SyncRow("users", TRUE, 3, None) >>,
             { Created("users"), ProgressOnly }),
      Source(<< SyncRow("users", FALSE, 2, 1) >>,
             { Created("users"), ProgressOnly }) }

\* ------------------------------------------------------------------- state

VARIABLES
    syncs,             \* the enabled Sync rows of the source
    changes,           \* the events the source's database gives rise to
    log,               \* the source's replication log; event i has progress i
    stored,            \* the Progress Marker in the progress store (0: empty)
    index_exists,      \* per sync: whether its Meilisearch index exists
    index,             \* per sync: the writes its index received, in order
    full_data,         \* per sync: the full-data extractions and loads
    synclog,           \* the SyncLog.bulk_create calls, in order
    loglines,          \* number of "Save n sync logs" lines logged
    failures,          \* number of index writes that failed
    errors,            \* per Runner: errors logged by its flush timers
    sources,           \* the primary keys of the rows of the Source table
    upc,               \* position of Scheduler.startup
    tasks,             \* Scheduler._tasks: per source.pk its task (0: no entry)
    nrunners,          \* number of Runner instances created
    pk,                \* per Runner: self.source.pk (0: not created)
    task,              \* per Runner: state of its _start_source task
    bpc,               \* per Runner: position of __aenter__
    bk,                \* per Runner: position of __aenter__'s loop on sync_settings
    reset_progress,    \* per Runner: self.reset_progress
    current_progress,  \* per Runner: self.current_progress
    seed,              \* per Runner: progress its connector was built with
    pos,               \* per Runner: progress of the last event listen() put
    deq,               \* per Runner: progress of the last event sync_data() got
    lpc,               \* per Runner: position of listen()
    dpc,               \* per Runner: position of sync_data()
    dk,                \* per Runner: position of sync_data()'s loop on ss_list
    spc,               \* per Runner: position of save_stats()
    tpc,               \* per Runner and sync: position of start_interval()
    lock,              \* per Runner: holder of self.lock
    waiters,           \* per Runner: coroutines waiting for self.lock
    collections_map,   \* per Runner and sync: events of its EventCollection
    stats              \* per Runner: self.stats

shared == << syncs, changes, log, stored, index_exists, index, full_data, synclog,
             loglines, failures, errors >>

registry == << sources, upc, tasks, nrunners, pk >>

sched == << registry, task, bpc, bk, reset_progress >>

loops == << current_progress, seed, pos, deq, lpc, dpc, dk, spc, tpc, lock,
            waiters, collections_map, stats >>

vars == << shared, sched, loops >>

Syncs == DOMAIN syncs

\* ----------------------------------------------------------------- helpers

\* A map of tables that keeps the first sync of a table only.
SsListFirst(tbl) ==
    LET all == SelectSeq([i \in Syncs |-> i], LAMBDA i : syncs[i].table = tbl)
    IN  IF all = << >> THEN << >> ELSE << Head(all) >>

\* self.tables_sync_settings_map.get(table): the syncs of a table, in the
\* order __aenter__ appended them.
SsList(tbl) ==
    SelectSeq([i \in Syncs |-> i], LAMBDA i : syncs[i].table = tbl)

\* The test of sync_data(): neither insert_size nor insert_interval is set.
Unbatched(t) ==
    syncs[t].insert_size = None /\ syncs[t].insert_interval = None

\* self.stats before the first event and after clear().
NoStats == [t \in Syncs |-> [k \in EventKinds |-> 0]]

\* queue.qsize(): listen() put the events up to pos, sync_data() got those
\* up to deq.
QueueSize(r) == pos[r] - deq[r]

\* --------------------------------------------------------------- self.lock

FreeLock == << "free", 0 >>
Dispatch == << "sync_data", 0 >>
Stats == << "save_stats", 0 >>
Timer(t) == << "start_interval", t >>

\* A lock that is handed to whoever asks for it.
LockAfterAcquireAlways(r, me) ==
    me

\* asyncio.Lock.acquire(): taken at once when free, else the caller queues.
LockAfterAcquire(r, me) ==
    IF lock[r] = FreeLock THEN me ELSE lock[r]

WaitersAfterAcquire(r, me) ==
    IF lock[r] = FreeLock THEN waiters[r] ELSE Append(waiters[r], me)

\* asyncio.Lock.release(): the first waiter is woken and owns the lock.
LockAfterRelease(r) ==
    IF waiters[r] = << >> THEN FreeLock ELSE Head(waiters[r])

WaitersAfterRelease(r) ==
    IF waiters[r] = << >> THEN << >> ELSE Tail(waiters[r])

Acquire(r, me) ==
    /\ lock' = [lock EXCEPT ![r] = LockAfterAcquire(r, me)]
    /\ waiters' = [waiters EXCEPT ![r] = WaitersAfterAcquire(r, me)]

Release(r) ==
    /\ lock' = [lock EXCEPT ![r] = LockAfterRelease(r)]
    /\ waiters' = [waiters EXCEPT ![r] = WaitersAfterRelease(r)]

\* -------------------------------------------------------------------- Init

InitOf(srcs, tables) ==
    /\ \E src \in srcs : syncs = src.syncs /\ changes = src.changes
    /\ sources \in tables
    /\ upc = "off"
    /\ log = << >>
    /\ stored = 0
    /\ index_exists \in [Syncs -> BOOLEAN]
    /\ \A t \in Syncs : index_exists[t] => syncs[t].full_sync
    /\ index = [t \in Syncs |-> << >>]
    /\ full_data = [t \in Syncs |-> [runs |-> 0, loads |-> 0]]
    /\ synclog = << >>
    /\ loglines = 0
    /\ failures = 0
    /\ errors = [r \in Runners |-> 0]
    /\ tasks = [id \in Pks |-> 0]
    /\ nrunners = 0
    /\ pk = [r \in Runners |-> 0]
    /\ task = [r \in Runners |-> "none"]
    /\ bpc = [r \in Runners |-> "none"]
    /\ bk = [r \in Runners |-> 1]
    /\ reset_progress = [r \in Runners |-> FALSE]
    /\ current_progress = [r \in Runners |-> 0]
    /\ seed = [r \in Runners |-> 0]
    /\ pos = [r \in Runners |-> 0]
    /\ deq = [r \in Runners |-> 0]
    /\ lpc = [r \in Runners |-> "off"]
    /\ dpc = [r \in Runners |-> "off"]
    /\ dk = [r \in Runners |-> 1]
    /\ spc = [r \in Runners |-> "off"]
    /\ tpc = [r \in Runners |-> [t \in Syncs |-> "off"]]
    /\ lock = [r \in Runners |-> FreeLock]
    /\ waiters = [r \in Runners |-> << >>]
    /\ collections_map = [r \in Runners |-> [t \in Syncs |-> << >>]]
    /\ stats = [r \in Runners |-> NoStats]

\* The Source table holds the followed source alone.
Init == InitOf(Sources, {{Followed}})

InitFanOut == InitOf(FanOutSources, {{Followed}})

InitRestart == InitOf(RestartSources, {{Followed}})

\* ---------------------------------------------------------------- Scheduler

\* Task.cancel() reaches the coroutines the task awaits: __aenter__ while it
\* bootstraps, the three coroutines of gather() while it runs.  A task that
\* is done ignores it.  The coroutines start_interval() were handed to
\* ensure_future and are no part of the task.  rs are the Runners whose tasks
\* receive the cancel request.
Gathered(r) == task[r] = "running"

TaskAfterCancel(rs) ==
    [r \in Runners |->
        IF r \in rs /\ task[r] \in {"boot", "running"}
        THEN "cancelled" ELSE task[r]]

BpcAfterCancel(rs) ==
    [r \in Runners |->
        IF r \in rs /\ task[r] = "boot" THEN "done" ELSE bpc[r]]

LpcAfterCancel(rs) ==
    [r \in Runners |-> IF r \in rs /\ Gathered(r) THEN "dead" ELSE lpc[r]]

DpcAfterCancel(rs) ==
    [r \in Runners |->
        IF r \in rs /\ Gathered(r) THEN "cancelled" ELSE dpc[r]]

\* The event sync_data() holds is in the collection, or was applied to the
\* index, of the sync at dk: dk moves past it.
PastAwait(r) ==
    \/ dpc[r] = "persist"
    \/ /\ dpc[r] = "write"
       /\ ~Unbatched(SsList(log[deq[r]].table)[dk[r]])

DkAfterCancel(rs) ==
    [r \in Runners |->
        IF r \in rs /\ Gathered(r) /\ PastAwait(r) THEN dk[r] + 1 ELSE dk[r]]

SpcAfterCancel(rs) ==
    [r \in Runners |-> IF r \in rs /\ Gathered(r) THEN "dead" ELSE spc[r]]

\* A cancelled waiter leaves the queue of the lock; a cancelled holder
\* leaves `async with` and releases it.
StillWaiting(r) ==
    SelectSeq(waiters[r], LAMBDA w : w \notin {Dispatch, Stats})

LockAfterCancel(rs) ==
    [r \in Runners |->
        IF r \in rs /\ Gathered(r) /\ lock[r] \in {Dispatch, Stats}
        THEN IF StillWaiting(r) = << >> THEN FreeLock
             ELSE Head(StillWaiting(r))
        ELSE lock[r]]

WaitersAfterCancel(rs) ==
    [r \in Runners |->
        IF r \in rs /\ Gathered(r)
        THEN IF lock[r] \in {Dispatch, Stats} /\ StillWaiting(r) # << >>
             THEN Tail(StillWaiting(r)) ELSE StillWaiting(r)
        ELSE waiters[r]]

\* The tasks cancel() is called on reach their coroutines.
Cancel(rs) ==
    /\ lpc' = LpcAfterCancel(rs)
    /\ dpc' = DpcAfterCancel(rs)
    /\ dk' = DkAfterCancel(rs)
    /\ spc' = SpcAfterCancel(rs)
    /\ lock' = LockAfterCancel(rs)
    /\ waiters' = WaitersAfterCancel(rs)

\* The Runners Scheduler._tasks records, and the Runner it records for id.
Tracked == { tasks[id] : id \in Pks } \ {0}

TaskOf(reg, id) == {reg[id]} \ {0}

\* sources = await Source.all(): startup is suspended while the table loads.
StartupLoad ==
    /\ upc = "off"
    /\ upc' = "load"
    /\ UNCHANGED << shared, sources, tasks, nrunners, pk, task, bpc, bk,
                    reset_progress, loops >>

\* Position of source id in the list Source.all() returned.
RankIn(id) == Cardinality({ j \in sources : j <= id })

\* The Runner created for source id by the loop of startup.
Spawned(id) == nrunners + RankIn(id)

\* Where __aenter__ of a new Runner of source id starts.
BpcAtStart(id, reset) ==
    IF id # Followed THEN "other" ELSE IF reset THEN "reset" ELSE "get"

\* for source in sources:
\*     cls._tasks[source.pk] = asyncio.ensure_future(cls._start_source(source))
StartupSpawn ==
    /\ upc = "load"
    /\ nrunners + Cardinality(sources) <= MaxRunners
    /\ upc' = "done"
    /\ nrunners' = nrunners + Cardinality(sources)
    /\ tasks' = [id \in Pks |->
                    IF id \in sources THEN Spawned(id) ELSE tasks[id]]
    /\ pk' = [r \in Runners |->
                 IF \E id \in sources : r = Spawned(id)
                 THEN CHOOSE id \in sources : r = Spawned(id) ELSE pk[r]]
    /\ task' = [r \in Runners |->
                   IF \E id \in sources : r = Spawned(id)
                   THEN "boot" ELSE task[r]]
    /\ bpc' = [r \in Runners |->
                  IF \E id \in sources : r = Spawned(id)
                  THEN BpcAtStart(CHOOSE id \in sources : r = Spawned(id),
                                  FALSE)
                  ELSE bpc[r]]
    /\ UNCHANGED << shared, sources, bk, reset_progress, loops >>

\* Scheduler.shutdown: every recorded task is cancelled and stays recorded.
Shutdown ==
    /\ \E r \in Tracked : task[r] \in {"boot", "running"}
    /\ task' = TaskAfterCancel(Tracked)
    /\ bpc' = BpcAfterCancel(Tracked)
    /\ Cancel(Tracked)
    /\ UNCHANGED << shared, registry, bk, reset_progress, current_progress,
                    seed, pos, deq, tpc, collections_map, stats >>

\* A registry that drops every entry.
TasksAfterRemoveAll(reg, id) ==
    [j \in Pks |-> 0]

\* if source_id in cls._tasks: ...; del cls._tasks[source_id]
TasksAfterRemove(reg, id) ==
    IF reg[id] # 0 THEN [reg EXCEPT ![id] = 0] ELSE reg

\* Scheduler.remove_source of a recorded source: cancel, then del.  With no
\* entry for source_id nothing is done, which is no step.
RemoveSource(id) ==
    /\ tasks[id] # 0
    /\ tasks' = TasksAfterRemove(tasks, id)
    /\ task' = TaskAfterCancel(TaskOf(tasks, id))
    /\ bpc' = BpcAfterCancel(TaskOf(tasks, id))
    /\ Cancel(TaskOf(tasks, id))
    /\ UNCHANGED << shared, sources, upc, nrunners, pk, bk, reset_progress,
                    current_progress, seed, pos, deq, tpc, collections_map,
                    stats >>

\* Scheduler.restart_source: remove_source, then a new task is created and
\* recorded; no await lies between the two.
RestartSource(id, reset) ==
    /\ nrunners < MaxRunners
    /\ nrunners' = nrunners + 1
    /\ tasks' = [TasksAfterRemove(tasks, id) EXCEPT ![id] = nrunners + 1]
    /\ pk' = [pk EXCEPT ![nrunners + 1] = id]
    /\ task' = [TaskAfterCancel(TaskOf(tasks, id)) EXCEPT
                  ![nrunners + 1] = "boot"]
    /\ bpc' = [BpcAfterCancel(TaskOf(tasks, id)) EXCEPT
                 ![nrunners + 1] = BpcAtStart(id, reset)]
    /\ reset_progress' = [reset_progress EXCEPT ![nrunners + 1] = reset]
    /\ Cancel(TaskOf(tasks, id))
    /\ UNCHANGED << shared, sources, upc, bk, current_progress, seed, pos,
                    deq, tpc, collections_map, stats >>

\* __aenter__ and run() of the Runner of a source other than Followed:
\* __aenter__ returns and the loops run, or it raises and the task ends with
\* the exception.
OtherBoot(r) ==
    /\ task[r] = "boot"
    /\ bpc[r] = "other"
    /\ task' = [task EXCEPT ![r] = "running"]
    /\ bpc' = [bpc EXCEPT ![r] = "done"]
    /\ UNCHANGED << shared, registry, bk, reset_progress, loops >>

OtherFail(r) ==
    /\ task[r] = "boot"
    /\ bpc[r] = "other"
    /\ task' = [task EXCEPT ![r] = "failed"]
    /\ bpc' = [bpc EXCEPT ![r] = "done"]
    /\ UNCHANGED << shared, registry, bk, reset_progress, loops >>

\* ------------------------------------------------------- Runner.__aenter__

\* if self.reset_progress: await self.progress.reset()
BootReset(r) ==
    /\ task[r] = "boot"
    /\ bpc[r] = "reset"
    /\ stored' = 0
    /\ bpc' = [bpc EXCEPT ![r] = "get"]
    /\ UNCHANGED << syncs, changes, log, index_exists, index, full_data, synclog,
                    loglines, failures, errors, registry, task, bk,
                    reset_progress, loops >>

\* self.current_progress = await self.progress.get(); the syncs are loaded
\* and the connector is built from self.current_progress.
BootGet(r) ==
    /\ task[r] = "boot"
    /\ bpc[r] = "get"
    /\ current_progress' = [current_progress EXCEPT ![r] = stored]
    /\ seed' = [seed EXCEPT ![r] = stored]
    /\ pos' = [pos EXCEPT ![r] = stored]
    /\ deq' = [deq EXCEPT ![r] = stored]
    /\ bpc' = [bpc EXCEPT ![r] = "syncs"]
    /\ bk' = [bk EXCEPT ![r] = 1]
    /\ UNCHANGED << shared, registry, task, reset_progress, lpc, dpc,
                    dk, spc, tpc, lock, waiters, collections_map, stats >>

\* A gate that does not ask whether the index exists.
NeedsFullSyncUngated(t) ==
    syncs[t].full_sync

\* if ss.full and not await meili.index_exists(ss.index_name)
NeedsFullSync(t) ==
    syncs[t].full_sync /\ ~index_exists[t]

\* __aenter__ returned and run() gathered the three loops.
LastSync(r) == bk[r] = Len(syncs)

\* One turn of the loop on self.sync_settings: the full sync of the sync when
\* it is due (get_full_data yields the rows of the table, if it has any, and
\* add_full_data loads them), then its flush timer when it has an
\* insert_interval.
BootSync(r) ==
    /\ task[r] = "boot"
    /\ bpc[r] = "syncs"
    /\ LET t == bk[r] IN
        /\ IF NeedsFullSync(t)
           THEN \E found \in BOOLEAN :
                  /\ full_data' = [full_data EXCEPT
                        ![t] = [runs |-> @.runs + 1,
                                loads |-> @.loads + IF found THEN 1 ELSE 0]]
                  /\ index_exists' = [index_exists EXCEPT ![t] = found]
           ELSE UNCHANGED << full_data, index_exists >>
        /\ tpc' = [tpc EXCEPT ![r][t] =
                     IF syncs[t].insert_interval # None THEN "sleep" ELSE @]
    /\ bk' = [bk EXCEPT ![r] = @ + 1]
    /\ bpc' = [bpc EXCEPT ![r] = IF LastSync(r) THEN "done" ELSE @]
    /\ task' = [task EXCEPT ![r] = IF LastSync(r) THEN "running" ELSE @]
    /\ lpc' = [lpc EXCEPT ![r] = IF LastSync(r) THEN "run" ELSE @]
    /\ dpc' = [dpc EXCEPT ![r] = IF LastSync(r) THEN "get" ELSE @]
    /\ spc' = [spc EXCEPT ![r] = IF LastSync(r) THEN "sleep" ELSE @]
    /\ UNCHANGED << syncs, changes, log, stored, index, synclog, loglines, failures,
                    errors, registry, reset_progress, current_progress,
                    seed, pos, deq, dk, lock, waiters, collections_map,
                    stats >>

\* A failure that ends every task that bootstraps.
BootFailAll(r) ==
    /\ task[r] = "boot"
    /\ bpc[r] = "syncs"
    /\ syncs[bk[r]].full_sync
    /\ task' = [q \in Runners |->
                   IF task[q] = "boot" THEN "failed" ELSE task[q]]
    /\ bpc' = [q \in Runners |->
                  IF task[q] = "boot" THEN "done" ELSE bpc[q]]
    /\ UNCHANGED << shared, registry, bk, reset_progress, loops >>

\* meili.index_exists or the extraction raises: __aenter__ raises and the
\* task ends with the exception.
BootFail(r) ==
    /\ task[r] = "boot"
    /\ bpc[r] = "syncs"
    /\ syncs[bk[r]].full_sync
    /\ task' = [task EXCEPT ![r] = "failed"]
    /\ bpc' = [bpc EXCEPT ![r] = "done"]
    /\ UNCHANGED << shared, registry, bk, reset_progress, loops >>

\* ------------------------------------------------------------ Runner.listen

\* async for event in self.source_obj: await self.queue.put(event).  The
\* connector yields the events after its starting progress, in log order; an
\* event not yet in the log is whatever the source does next.
Listen(r) ==
    /\ lpc[r] = "run"
    /\ pos[r] < MaxEvents
    /\ \/ /\ pos[r] < Len(log)
          /\ UNCHANGED log
       \/ /\ pos[r] = Len(log)
          /\ \E ev \in changes : log' = Append(log, ev)
    /\ pos' = [pos EXCEPT ![r] = @ + 1]
    /\ UNCHANGED << syncs, changes, stored, index_exists, index, full_data, synclog,
                    loglines, failures, errors, sched, current_progress, seed,
                    deq, lpc, dpc, dk, spc, tpc, lock, waiters,
                    collections_map, stats >>

\* ------------------------------------------------------------- Index Client

\* Meili.handle_event(event, setting): the event is applied to the index.
HandleEvent(t, r, e) ==
    Append(index[t], [by |-> r, events |-> << e >>])

\* Meili.handle_events(collection): the buffered events are applied to the
\* index in append order; an empty collection writes nothing.
HandleEvents(t, r, batch) ==
    IF batch = << >> THEN index[t]
    ELSE Append(index[t], [by |-> r, events |-> batch])

\* A write of documents creates the index when it does not exist.
Written(t, writes) ==
    /\ index' = [index EXCEPT ![t] = writes]
    /\ index_exists' = [index_exists EXCEPT ![t] = @ \/ writes # index[t]]

\* The write raises and the index is as before.
WriteFails ==
    /\ failures < MaxFailures
    /\ failures' = failures + 1
    /\ UNCHANGED << index, index_exists >>

\* --------------------------------------------------------- Runner.sync_data

\* _save_progress() calls self.progress.set(**self.current_progress): the
\* store takes the writes in the order of the calls, and the caller awaits
\* the return.
SaveProgress(r) ==
    stored' = current_progress[r]

\* A map of tables that answers with every sync, whatever the table.
SsListOfAny(e) == [i \in Syncs |-> i]

\* The ss_list of event e.
SsListOf(e) == SsList(log[e].table)

\* The exception leaves `async with self.lock` and sync_data(); gather()
\* hands it to run(), and the task ends with it.  listen(), save_stats()
\* and the flush timers are not cancelled.
Raised(r, how) ==
    /\ dpc' = [dpc EXCEPT ![r] = how]
    /\ task' = [task EXCEPT ![r] = IF @ = "running" THEN "failed" ELSE @]

\* A collection that keeps the latest event only.
AddEventLatest(collection, e) ==
    << e >>

\* A collection that takes the event at its front.
AddEventFirst(collection, e) ==
    << e >> \o collection

\* collection = self.collections_map[setting]
\* collection.add_event(setting, event)
AddEvent(collection, e) ==
    Append(collection, e)

\* A flush that waits until the collection is larger than insert_size.
SizeExceeded(t, collection) ==
    Len(collection) > syncs[t].insert_size

\* collection.size >= meilisearch.insert_size
SizeReached(t, collection) ==
    Len(collection) >= syncs[t].insert_size

\* `for setting, sync_model in ss_list` from position k of ss_list up to its
\* next await, for event e, statistics st and collections co of the Runner:
\* the sync is counted; an unbatched sync awaits handle_event ("write"); a
\* batched sync gets the event added and awaits handle_events ("write") when
\* insert_size is reached, where an unset insert_size makes the comparison
\* raise ("typeerror"); otherwise the loop goes on, and ends ("done").
\* k is left at the sync that awaits, or after the last sync handled.
RECURSIVE ForLoop(_, _, _, _)
ForLoop(e, k, st, co) ==
    IF k > Len(SsListOf(e))
    THEN [out |-> "done", k |-> k, st |-> st, co |-> co]
    ELSE LET t == SsListOf(e)[k]
             counted == [st EXCEPT ![t][log[e].type] = @ + 1]
             added == [co EXCEPT ![t] = AddEvent(@, e)]
         IN  IF Unbatched(t)
             THEN [out |-> "write", k |-> k, st |-> counted, co |-> co]
             ELSE IF syncs[t].insert_size = None
             THEN [out |-> "typeerror", k |-> k + 1, st |-> counted,
                   co |-> added]
             ELSE IF SizeReached(t, added[t])
             THEN [out |-> "write", k |-> k, st |-> counted, co |-> added]
             ELSE ForLoop(e, k + 1, counted, added)

\* sync_data() from one await to the next.  InLoop: it owns the lock (l is
\* Dispatch) and the for loop is at position k of ss_list for event e, with
\* statistics st, collections co and waiters w of the lock; when the loop
\* ends the lock is released and the while loop is back at queue.get().
\* AtGet: it is at queue.get() for event e, position k being where the for
\* loop left the event before: an empty queue suspends it ("get"), a
\* ProgressEvent goes on to _save_progress ("save"), an event of a table
\* without syncs is dropped, any other event enters `async with self.lock`,
\* where a lock that is not free suspends it ("lock").
RECURSIVE InLoop(_, _, _, _, _, _), AtGet(_, _, _, _, _, _, _)
InLoop(r, e, k, st, co, w) ==
    LET res == ForLoop(e, k, st, co)
        released == IF w = << >> THEN FreeLock ELSE Head(w)
        rest == IF w = << >> THEN << >> ELSE Tail(w)
    IN  IF res.out = "write"
        THEN [out |-> "write", deq |-> e, k |-> res.k, st |-> res.st,
              co |-> res.co, l |-> Dispatch, w |-> w]
        ELSE IF res.out = "typeerror"
        THEN [out |-> "typeerror", deq |-> e, k |-> res.k, st |-> res.st,
              co |-> res.co, l |-> released, w |-> rest]
        ELSE AtGet(r, e + 1, res.k, res.st, res.co, released, rest)

AtGet(r, e, k, st, co, l, w) ==
    IF e > pos[r]
    THEN [out |-> "get", deq |-> e - 1, k |-> k, st |-> st, co |-> co,
          l |-> l, w |-> w]
    ELSE IF log[e].type = "progress"
    THEN [out |-> "save", deq |-> e, k |-> 1, st |-> st, co |-> co,
          l |-> l, w |-> w]
    ELSE IF SsListOf(e) = << >>
    THEN AtGet(r, e + 1, 1, st, co, l, w)
    ELSE IF l # FreeLock
    THEN [out |-> "lock", deq |-> e, k |-> 1, st |-> st, co |-> co,
          l |-> l, w |-> Append(w, Dispatch)]
    ELSE InLoop(r, e, 1, st, co, w)

\* sync_data() of Runner r is suspended as res tells; at "save" it called
\* _save_progress() for the ProgressEvent it got.
Suspend(r, res) ==
    /\ stored' = IF res.out = "save" THEN res.deq ELSE stored
    /\ deq' = [deq EXCEPT ![r] = res.deq]
    /\ current_progress' = [current_progress EXCEPT
                               ![r] = IF res.deq = deq[r] THEN @ ELSE res.deq]
    /\ dk' = [dk EXCEPT ![r] = res.k]
    /\ stats' = [stats EXCEPT ![r] = res.st]
    /\ collections_map' = [collections_map EXCEPT ![r] = res.co]
    /\ lock' = [lock EXCEPT ![r] = res.l]
    /\ waiters' = [waiters EXCEPT ![r] = res.w]
    /\ IF res.out = "typeerror"
       THEN Raised(r, "typeerror")
       ELSE dpc' = [dpc EXCEPT ![r] = res.out] /\ UNCHANGED task

\* event = await self.queue.get() returns: listen() put an event.
SyncDataGet(r) ==
    /\ dpc[r] = "get"
    /\ QueueSize(r) > 0
    /\ Suspend(r, AtGet(r, deq[r] + 1, dk[r], stats[r], collections_map[r],
                        lock[r], waiters[r]))
    /\ UNCHANGED << syncs, changes, log, index_exists, index, full_data,
                    synclog, loglines, failures, errors, registry, bpc,
                    bk, reset_progress, seed, pos, lpc, spc, tpc >>

\* if not isinstance(event, Event): await self._save_progress() returns;
\* continue.
SyncDataSaveOnly(r) ==
    /\ dpc[r] = "save"
    /\ Suspend(r, AtGet(r, deq[r] + 1, dk[r], stats[r], collections_map[r],
                        lock[r], waiters[r]))
    /\ UNCHANGED << syncs, changes, log, index_exists, index, full_data,
                    synclog, loglines, failures, errors, registry, bpc,
                    bk, reset_progress, seed, pos, lpc, spc, tpc >>

\* sync_data() waited for the lock and owns it: the for loop starts.
SyncDataLocked(r) ==
    /\ dpc[r] = "lock"
    /\ lock[r] = Dispatch
    /\ Suspend(r, InLoop(r, deq[r], 1, stats[r], collections_map[r],
                         waiters[r]))
    /\ UNCHANGED << syncs, changes, log, index_exists, index, full_data,
                    synclog, loglines, failures, errors, registry, bpc,
                    bk, reset_progress, seed, pos, lpc, spc, tpc >>

\* await m.handle_event(event, setting) or await m.handle_events(collection)
\* returns, and _save_progress() is called; or it raises.
SyncDataWrite(r) ==
    /\ dpc[r] = "write"
    /\ LET e == deq[r]
           t == SsListOf(e)[dk[r]]
       IN
        \/ /\ IF Unbatched(t)
              THEN /\ Written(t, HandleEvent(t, r, e))
                   /\ UNCHANGED collections_map
              ELSE /\ Written(t, HandleEvents(t, r, collections_map[r][t]))
                   /\ collections_map' =
                        [collections_map EXCEPT ![r][t] = << >>]
           /\ SaveProgress(r)
           /\ dpc' = [dpc EXCEPT ![r] = "persist"]
           /\ UNCHANGED << failures, dk, task, lock, waiters >>
        \/ /\ WriteFails
           /\ Raised(r, "raised")
           /\ dk' = [dk EXCEPT ![r] = IF Unbatched(t) THEN @ ELSE @ + 1]
           /\ Release(r)
           /\ UNCHANGED << collections_map, stored >>
    /\ UNCHANGED << syncs, changes, log, full_data, synclog, loglines,
                    errors, registry, bpc, bk, reset_progress,
                    current_progress, seed, pos, deq, lpc, spc, tpc,
                    stats >>

\* await self._save_progress() after handle_event / handle_events returns,
\* and the for loop goes on.
SyncDataPersist(r) ==
    /\ dpc[r] = "persist"
    /\ Suspend(r, InLoop(r, deq[r], dk[r] + 1, stats[r], collections_map[r],
                         waiters[r]))
    /\ UNCHANGED << syncs, changes, log, index_exists, index, full_data,
                    synclog, loglines, failures, errors, registry, bpc,
                    bk, reset_progress, seed, pos, lpc, spc, tpc >>

\* --------------------------------------------------- Runner.start_interval

\* await asyncio.sleep(interval) is over: async with self.lock.
TimerWake(r, t) ==
    /\ tpc[r][t] = "sleep"
    /\ tpc' = [tpc EXCEPT ![r][t] = "flush"]
    /\ Acquire(r, Timer(t))
    /\ UNCHANGED << shared, sched, current_progress, seed, pos, deq, lpc, dpc,
                    dk, spc, collections_map, stats >>

\* A timer whose loop ends with the exception.
TimerStops(r, t) ==
    /\ errors' = [errors EXCEPT ![r] = @ + 1]
    /\ tpc' = [tpc EXCEPT ![r][t] = "off"]
    /\ Release(r)

\* except Exception as e: logger.error(...); the lock was released on the
\* way out of `async with`, and the loop sleeps again.
TimerCaught(r, t) ==
    /\ errors' = [errors EXCEPT ![r] = @ + 1]
    /\ tpc' = [tpc EXCEPT ![r][t] = "sleep"]
    /\ Release(r)

\* await m.handle_events(c) under the lock returns, and _save_progress() is
\* called; or it raises.
TimerFlush(r, t) ==
    /\ tpc[r][t] = "flush"
    /\ lock[r] = Timer(t)
    /\ \/ /\ Written(t, HandleEvents(t, r, collections_map[r][t]))
          /\ collections_map' = [collections_map EXCEPT ![r][t] = << >>]
          /\ tpc' = [tpc EXCEPT ![r][t] = "save"]
          /\ SaveProgress(r)
          /\ UNCHANGED << failures, errors, lock, waiters >>
       \/ /\ collections_map[r][t] # << >>
          /\ WriteFails
          /\ TimerCaught(r, t)
          /\ UNCHANGED << collections_map, stored >>
    /\ UNCHANGED << syncs, changes, log, full_data, synclog, loglines, sched,
                    current_progress, seed, pos, deq, lpc, dpc, dk, spc,
                    stats >>

\* await self._save_progress() returns under the lock; then the lock is
\* released and the loop sleeps again.
TimerSave(r, t) ==
    /\ tpc[r][t] = "save"
    /\ lock[r] = Timer(t)
    /\ tpc' = [tpc EXCEPT ![r][t] = "sleep"]
    /\ Release(r)
    /\ UNCHANGED << syncs, changes, log, stored, index_exists, index, full_data,
                    synclog, loglines, failures, errors, sched,
                    current_progress, seed,
                    pos, deq, lpc, dpc, dk, spc, collections_map, stats >>

\* -------------------------------------------------------- Runner.save_stats

\* await asyncio.sleep(60) is over: async with self.lock.  With the lock
\* free and self.stats empty the tick ends at `continue` with nothing done
\* and nothing awaited, which is no step.
StatsWake(r) ==
    /\ spc[r] = "sleep"
    /\ lock[r] # FreeLock \/ stats[r] # NoStats
    /\ spc' = [spc EXCEPT ![r] = "save"]
    /\ Acquire(r, Stats)
    /\ UNCHANGED << shared, sched, current_progress, seed, pos, deq, lpc, dpc,
                    dk, tpc, collections_map, stats >>

\* objs with a row for every type of event of every sync counted.
ObjsOfAllTypes(r) ==
    { [sync_id |-> t, type |-> k, count |-> stats[r][t][k]] :
        << t, k >> \in { p \in Syncs \X EventKinds :
                           \E j \in EventKinds : stats[r][p[1]][j] > 0 } }

\* objs: one SyncLog(sync_id, count, type) per entry of self.stats.
Objs(r) ==
    { [sync_id |-> t, type |-> k, count |-> stats[r][t][k]] :
        << t, k >> \in { p \in Syncs \X EventKinds : stats[r][p[1]][p[2]] > 0 } }

\* The syncs self.stats has a key for: one logger.info line each.
Counted(r) ==
    { t \in Syncs : \E k \in EventKinds : stats[r][t][k] > 0 }

\* The body of `async with self.lock` in save_stats(): `continue` when objs
\* is empty, else bulk_create and self.stats.clear().
StatsSave(r) ==
    /\ spc[r] = "save"
    /\ lock[r] = Stats
    /\ loglines' = loglines + Cardinality(Counted(r))
    /\ IF Objs(r) = {}
       THEN UNCHANGED << synclog, stats >>
       ELSE /\ synclog' = Append(synclog, [by |-> r, objs |-> Objs(r)])
            /\ stats' = [stats EXCEPT ![r] = NoStats]
    /\ spc' = [spc EXCEPT ![r] = "sleep"]
    /\ Release(r)
    /\ UNCHANGED << syncs, changes, log, stored, index_exists, index, full_data,
                    failures, errors, sched, current_progress, seed, pos, deq,
                    lpc, dpc, dk, tpc, collections_map >>

\* -------------------------------------------------------------------- Next

Next ==
    \/ StartupLoad
    \/ StartupSpawn
    \/ Shutdown
    \/ RemoveSource(Followed)
    \/ \E r \in Runners :
        \/ BootGet(r)
        \/ BootSync(r)
        \/ BootFail(r)
        \/ Listen(r)
        \/ SyncDataGet(r)
        \/ SyncDataSaveOnly(r)
        \/ SyncDataLocked(r)
        \/ SyncDataWrite(r)
        \/ SyncDataPersist(r)
        \/ StatsWake(r)
        \/ StatsSave(r)
        \/ \E t \in Syncs :
            \/ TimerWake(r, t)
            \/ TimerFlush(r, t)
            \/ TimerSave(r, t)

Spec == Init /\ [][Next]_vars

\* The same Runner on the sources with fan-out.
SpecFanOut == InitFanOut /\ [][Next]_vars

\* The source the lock is followed on to the end of every behaviour: a sync
\* with full_sync, insert_size and insert_interval.
FairSources ==
    { Source(<< SyncRow("users", TRUE, 2, 1) >>,
             { Created("users"), ProgressOnly }) }

InitFair == InitOf(FairSources, {{Followed}})

\* The keys a sync can have in these sources.
SyncKeys == UNION { DOMAIN src.syncs : src \in FairSources }

\* The awaits under self.lock return: a coroutine that was handed the lock
\* goes on, and the index write, the write of the progress and the write of
\* the SyncLog rows it awaits under the lock return or raise.
Returns ==
    \A r \in Runners :
        /\ WF_vars(SyncDataLocked(r))
        /\ WF_vars(SyncDataWrite(r))
        /\ WF_vars(SyncDataPersist(r))
        /\ WF_vars(StatsSave(r))
        /\ \A t \in SyncKeys :
              /\ WF_vars(t \in Syncs /\ TimerFlush(r, t))
              /\ WF_vars(t \in Syncs /\ TimerSave(r, t))

SpecFair == InitFair /\ [][Next]_vars /\ Returns

\* Restarts of the source: Scheduler.restart_source, called once startup is
\* through, and the Runners it replaces and creates.  save_stats() is left
\* out: it touches self.stats, the SyncLog table and the lock, and holds the
\* lock over no write of an index or of the progress.
NextRestart ==
    \/ StartupLoad
    \/ StartupSpawn
    \/ Shutdown
    \/ RemoveSource(Followed)
    \/ upc = "done" /\ \E reset \in BOOLEAN : RestartSource(Followed, reset)
    \/ \E r \in Runners :
        \/ BootReset(r)
        \/ BootGet(r)
        \/ BootSync(r)
        \/ BootFail(r)
        \/ Listen(r)
        \/ SyncDataGet(r)
        \/ SyncDataSaveOnly(r)
        \/ SyncDataLocked(r)
        \/ SyncDataWrite(r)
        \/ SyncDataPersist(r)
        \/ \E t \in Syncs :
            \/ TimerWake(r, t)
            \/ TimerFlush(r, t)
            \/ TimerSave(r, t)

SpecRestart == InitRestart /\ [][NextRestart]_vars

\* The Scheduler over a Source table of one or more sources: startup,
\* shutdown, remove_source and restart_source in any order, restart_source
\* also while startup loads the table, and the tasks up to the point where
\* run() gathers the loops.  The followed source has one sync, with
\* full_sync, so that its bootstrap can fail.
SchedulerSources ==
    { Source(<< SyncRow("users", TRUE, 2, 1) >>, { Created("users") }) }

InitScheduler == InitOf(SchedulerSources, SUBSET Pks \ {{}})

NextScheduler ==
    \/ StartupLoad
    \/ StartupSpawn
    \/ Shutdown
    \/ \E id \in Pks :
        \/ RemoveSource(id)
        \/ \E reset \in BOOLEAN : RestartSource(id, reset)
    \/ \E r \in Runners :
        \/ BootReset(r)
        \/ BootGet(r)
        \/ BootSync(r)
        \/ BootFail(r)
        \/ OtherBoot(r)
        \/ OtherFail(r)

SpecScheduler == InitScheduler /\ [][NextScheduler]_vars

\* ------------------------------------------------------ reading the state

\* Event e is an Event of the table of sync t.
Touches(e, t) ==
    log[e].type # "progress" /\ log[e].table = syncs[t].table

\* The events of a sequence of index writes, in the order they were applied.
RECURSIVE EventsOf(_)
EventsOf(writes) ==
    IF writes = << >> THEN << >>
    ELSE Head(writes).events \o EventsOf(Tail(writes))

\* The events applied to the index of sync t, by any Runner and by Runner r.
Applied(t) ==
    { index[t][i].events[j] :
        << i, j >> \in { p \in (DOMAIN index[t]) \X (1..MaxEvents) :
                          p[2] <= Len(index[t][p[1]].events) } }

WritesBy(r, t) == SelectSeq(index[t], LAMBDA w : w.by = r)

AppliedBy(r, t) == EventsOf(WritesBy(r, t))

\* Position of sync t in the ss_list of its table.
PosOf(t) ==
    Cardinality({ u \in Syncs : u <= t /\ syncs[u].table = syncs[t].table })

\* Number of syncs of ss_list the for loop of sync_data() is through with
\* for the event it holds.
HandledCount(r) ==
    IF dpc[r] \in {"persist", "write"} /\ PastAwait(r) THEN dk[r]
    ELSE dk[r] - 1

\* The events of the table of sync t that sync_data() of Runner r handled
\* for t, in queue order: what an unbatched sync applies one by one.
RECURSIVE HandledFrom(_, _, _)
HandledFrom(r, t, e) ==
    IF e > deq[r] THEN << >>
    ELSE (IF Touches(e, t) /\ (e < deq[r] \/ PosOf(t) <= HandledCount(r))
          THEN << e >> ELSE << >>) \o HandledFrom(r, t, e + 1)

Handled(r, t) == HandledFrom(r, t, seed[r] + 1)

\* The count the SyncLog rows written by Runner r hold for sync t and type k.
RECURSIVE LoggedIn(_, _, _, _)
LoggedIn(entries, r, t, k) ==
    IF entries = << >> THEN 0
    ELSE (IF Head(entries).by = r /\ \E o \in Head(entries).objs :
                                        o.sync_id = t /\ o.type = k
          THEN (CHOOSE o \in Head(entries).objs :
                    o.sync_id = t /\ o.type = k).count
          ELSE 0) + LoggedIn(Tail(entries), r, t, k)

\* sync_data() of Runner r is between two events.
BetweenEvents(r) == dpc[r] \in {"get", "save"}

\* -------------------------------------------------------------- properties

\* C1: the persisted Progress Marker is never ahead of the index writes:
\* the event it comes from has been applied to the index of every sync it
\* touches, and no EventCollection holds an event at or before it.
C1_CheckpointNotAhead ==
    /\ \A t \in Syncs :
         (stored > 0 /\ Touches(stored, t)) =>
             \E e \in Applied(t) : stored <= e
    /\ \A r \in Runners, t \in Syncs :
         \A i \in DOMAIN collections_map[r][t] :
             collections_map[r][t][i] > stored

\* Runner r built its connector.
Seeded(r) == bpc[r] \in {"syncs", "done"}

\* C2: at-least-once delivery across restart.  A Runner started without
\* reset_progress has a connector that yields the events after its seed; an
\* event at or before the seed that touches a sync was applied to the index
\* of the sync, or waits in the EventCollection of a Runner whose flush
\* timer for the sync still runs.
C2_AtLeastOnce ==
    \A r2 \in Runners \ {1} :
        (Seeded(r2) /\ ~reset_progress[r2]) =>
            \A e \in 1..seed[r2], t \in Syncs :
                Touches(e, t) =>
                    \/ e \in Applied(t)
                    \/ \E r \in Runners :
                        /\ tpc[r][t] # "off"
                        /\ \E i \in DOMAIN collections_map[r][t] :
                              collections_map[r][t][i] = e

C4_ProgressMonotonic ==
    [][((\A r \in Runners : ~reset_progress'[r]) /\ stored' # 0)
          => stored' >= stored]_vars

\* The events of seed+1..deq of Runner r that touch sync t and have type k.
EventsOfType(r, t, k) ==
    { e \in (seed[r] + 1)..deq[r] : Touches(e, t) /\ log[e].type = k }

BootSyncStep(r, t) ==
    bpc[r] = "syncs" /\ bk[r] = t /\ bk'[r] = t + 1

\* C6: full-sync gating.  __aenter__ extracts the full data of a sync if and
\* only if the sync has full_sync and its index does not exist; no full data
\* is loaded otherwise, nor by any other step; and when the last sync is
\* done the Runner runs its loops.
C6_FullSyncGating ==
    [][/\ \A r \in Runners, t \in Syncs :
            BootSyncStep(r, t) =>
                /\ (full_data'[t].runs = full_data[t].runs + 1)
                      <=> (syncs[t].full_sync /\ ~index_exists[t])
                /\ ~(syncs[t].full_sync /\ ~index_exists[t])
                      => full_data' = full_data
                /\ \A u \in Syncs \ {t} : full_data'[u] = full_data[u]
                /\ t = Len(syncs) =>
                      /\ task'[r] = "running"
                      /\ lpc'[r] = "run"
                      /\ dpc'[r] = "get"
       /\ full_data' # full_data =>
            \E r \in Runners, t \in Syncs : BootSyncStep(r, t)]_vars

C6_Witness ==
    \E r \in Runners, t \in Syncs :
        /\ syncs[t].full_sync
        /\ full_data[t].runs = 0
        /\ task[r] = "running"
        /\ dpc[r] = "get"

\* The first n events of the log are create events of table users.
Creates(n) ==
    Len(log) >= n /\ \A i \in 1..n : log[i] = Created("users")

\* The single-event writes of Runner 1 for the events 1..n.
Singles(n) == [i \in 1..n |-> [by |-> 1, events |-> << i >>]]

StatsTick(r) ==
    spc[r] = "save" /\ lock[r] = Stats /\ spc'[r] = "sleep"

\* C8: a tick of save_stats() that finds no counted event writes no SyncLog
\* row and logs no line; a tick that finds counts writes one row for every
\* pair of sync and event type counted, with the count of the pair, and
\* nothing else, and leaves self.stats empty.
C8_StatsTick ==
    [][\A r \in Runners :
          StatsTick(r) =>
            IF \A t \in Syncs, k \in EventKinds : stats[r][t][k] = 0
            THEN synclog' = synclog /\ loglines' = loglines
            ELSE /\ Len(synclog') = Len(synclog) + 1
                 /\ SubSeq(synclog', 1, Len(synclog)) = synclog
                 /\ LET objs == synclog'[Len(synclog')].objs IN
                      /\ \A t \in Syncs, k \in EventKinds :
                            Cardinality({ o \in objs :
                                o.sync_id = t /\ o.type = k })
                              = IF stats[r][t][k] > 0 THEN 1 ELSE 0
                      /\ \A o \in objs :
                            o.count = stats[r][o.sync_id][o.type]
                 /\ \A t \in Syncs, k \in EventKinds : stats'[r][t][k] = 0]_vars

C8_Witness ==
    /\ synclog # << >>
    /\ Cardinality(synclog[Len(synclog)].objs) >= 2
    /\ \E r \in Runners :
          /\ spc[r] = "sleep"
          /\ stats[r] = NoStats
          /\ deq[r] > 0

\* The step in which the index write of the flush timer of sync t fails.
FailedTick(r, t) ==
    tpc[r][t] = "flush" /\ lock[r] = Timer(t) /\ failures' = failures + 1

\* C9: a failed write of a flush timer is caught: the timer sleeps again and
\* has released the lock, the task and the other loops are where they were,
\* the EventCollections and the Progress Marker are unchanged and the error
\* is logged; and every write to the index of a batched sync applies the
\* whole EventCollection of the sync and empties it, so the events a failed
\* tick left are applied by the next flush that succeeds.
C9_TimerFailure ==
    [][/\ \A r \in Runners, t \in Syncs :
            FailedTick(r, t) =>
                /\ tpc' = [tpc EXCEPT ![r][t] = "sleep"]
                /\ lock'[r] # Timer(t)
                /\ errors'[r] = errors[r] + 1
                /\ collections_map' = collections_map
                /\ stored' = stored
                /\ index' = index
                /\ task' = task
                /\ lpc' = lpc /\ dpc' = dpc /\ spc' = spc
       /\ \A t \in Syncs :
            (~Unbatched(t) /\ index'[t] # index[t]) =>
                LET w == index'[t][Len(index'[t])] IN
                  /\ w.events = collections_map[w.by][t]
                  /\ collections_map'[w.by][t] = << >>]_vars

C9_Witness ==
    \E r \in Runners, t \in Syncs :
        /\ errors[r] > 0
        /\ tpc[r][t] = "sleep"
        /\ task[r] = "running"
        /\ collections_map[r][t] = << >>
        /\ AppliedBy(r, t) # << >>
        /\ AppliedBy(r, t) = Handled(r, t)

\* C10: when an index write of sync_data() fails, the task of the Runner
\* ends failed and the progress of the event whose write failed is not in
\* the progress store.
C10_DispatchFailure ==
    \A r \in Runners :
        dpc[r] = "raised" => (task[r] = "failed" /\ stored < deq[r])

\* Runner r is where its task left it: no coroutine of the task moved.
Untouched(r) ==
    /\ task'[r] = task[r]
    /\ bpc'[r] = bpc[r]
    /\ lpc'[r] = lpc[r]
    /\ dpc'[r] = dpc[r]
    /\ spc'[r] = spc[r]
    /\ lock'[r] = lock[r]
    /\ waiters'[r] = waiters[r]

\* The step of remove_source(id): the entry of id goes and no task is
\* created.
RemoveStep(id) ==
    tasks[id] # 0 /\ tasks'[id] = 0 /\ nrunners' = nrunners

\* C11: remove_source(id).  When id is recorded, its task receives the
\* cancel request (a task that is not done is cancelled) and id has no entry
\* afterwards, while the entries and the tasks of all other sources are as
\* before; when id is not recorded, the registry and every task are as
\* before, which is also what a second call finds after the first.
C11_RemoveSource ==
    /\ [][\A id \in Pks :
            RemoveStep(id) =>
                /\ task'[tasks[id]] \notin {"boot", "running"}
                /\ task[tasks[id]] \in {"boot", "running"}
                      => task'[tasks[id]] = "cancelled"
                /\ \A j \in Pks \ {id} : tasks'[j] = tasks[j]
                /\ \A r \in Runners \ {tasks[id]} : Untouched(r)
                /\ TasksAfterRemove(tasks', id) = tasks']_vars
    /\ [](\A id \in Pks :
            tasks[id] = 0 =>
                /\ TasksAfterRemove(tasks, id) = tasks
                /\ TaskAfterCancel(TaskOf(tasks, id)) = task
                /\ BpcAfterCancel(TaskOf(tasks, id)) = bpc
                /\ LpcAfterCancel(TaskOf(tasks, id)) = lpc
                /\ DpcAfterCancel(TaskOf(tasks, id)) = dpc
                /\ SpcAfterCancel(TaskOf(tasks, id)) = spc
                /\ LockAfterCancel(TaskOf(tasks, id)) = lock
                /\ WaitersAfterCancel(TaskOf(tasks, id)) = waiters)

C11_Witness ==
    \E id \in Pks, j \in Pks, r \in Runners :
        /\ id # j
        /\ pk[r] = id
        /\ task[r] = "cancelled"
        /\ tasks[id] = 0
        /\ tasks[j] # 0
        /\ task[tasks[j]] \in {"boot", "running"}

\* C12: restart_source with reset_progress.  The Runner it creates resets
\* the Progress Marker before it reads it, so its connector is built with
\* the empty marker, whatever the Runner it replaces was doing.
C12_RestartReset ==
    \A r \in Runners :
        (reset_progress[r] /\ Seeded(r)) => seed[r] = 0

\* The step of startup that creates the tasks.
SpawnStep == upc = "load" /\ upc' = "done"

\* The step in which __aenter__ of Runner r raises.
BootFailure(r) == task[r] = "boot" /\ task'[r] = "failed"

\* A step of __aenter__ of Runner r that does not raise.
BootStep(r) == BootReset(r) \/ BootGet(r) \/ BootSync(r) \/ OtherBoot(r)

\* C13: isolation of the sources at startup.  startup creates and records
\* one task for every source of the table, each a Runner of its own; the
\* step in which the bootstrap of one Runner fails ends the task of that
\* Runner and changes neither the registry nor any other Runner; and a task
\* that bootstraps can take its next step whatever became of the others.
C13_StartupIsolation ==
    /\ [][SpawnStep =>
            /\ \A id \in sources :
                  /\ tasks'[id] \in Runners
                  /\ pk[tasks'[id]] = 0
                  /\ pk'[tasks'[id]] = id
                  /\ task'[tasks'[id]] = "boot"
            /\ \A id \in sources, j \in sources :
                  id # j => tasks'[id] # tasks'[j]
            /\ nrunners' = nrunners + Cardinality(sources)]_vars
    /\ [][\A r \in Runners :
            BootFailure(r) =>
                /\ tasks' = tasks
                /\ \A q \in Runners \ {r} : Untouched(q)
                /\ UNCHANGED << shared, loops >>]_vars
    /\ [](\A r \in Runners : task[r] = "boot" => ENABLED BootStep(r))

C13_Witness ==
    \E r \in Runners, q \in Runners :
        /\ upc = "done"
        /\ pk[r] # 0
        /\ pk[q] # 0
        /\ pk[r] # pk[q]
        /\ tasks[pk[r]] = r
        /\ tasks[pk[q]] = q
        /\ task[r] = "failed"
        /\ task[q] = "running"

\* The events of a sequence are in the order of the connector (the log).
InLogOrder(events) ==
    \A i \in DOMAIN events, j \in DOMAIN events :
        i < j => events[i] < events[j]

\* C14: order.  listen() puts the events of the connector in their order
\* and sync_data() gets them in that order, never going back; and for every
\* sync the events a Runner applied to its index, followed by the events
\* its EventCollection holds, are events of the table of the sync in the
\* order of the connector, whether they were applied one by one, by a flush
\* on insert_size or by a flush of the timer.
C14_OrderPreserved ==
    /\ [][\A r \in Runners :
            (lpc[r] = "run" /\ dpc[r] \notin {"off", "cancelled"}) =>
                /\ pos'[r] \in {pos[r], pos[r] + 1}
                /\ deq'[r] >= deq[r]
                /\ deq'[r] <= pos'[r]]_vars
    /\ [](\A r \in Runners, t \in Syncs :
            /\ InLogOrder(AppliedBy(r, t) \o collections_map[r][t])
            /\ \A i \in DOMAIN AppliedBy(r, t) :
                  Touches(AppliedBy(r, t)[i], t))

C14_Witness ==
    \E t \in Syncs :
        /\ syncs[t].insert_size # None
        /\ syncs[t].insert_interval # None
        /\ Len(AppliedBy(1, t)) = MaxEvents
        /\ \E i \in DOMAIN index[t], j \in DOMAIN index[t] :
              /\ i < j
              /\ Len(index[t][i].events) = syncs[t].insert_size
              /\ Len(index[t][j].events) < syncs[t].insert_size

\* C15: whenever a write puts into the progress store the progress of an
\* Event of a table with syncs, the event has been applied to the index of
\* every sync of its table; in particular not while sync_data() holds the
\* event and waits for the lock a flush timer owns.
C15_PersistAfterApply ==
    [][(stored' # stored /\ stored' > 0) =>
          \A t \in Syncs :
              Touches(stored', t) => stored' \in Applied(t)']_vars

\* The coroutines of a Runner that use self.lock.
LockUsers == {Dispatch, Stats} \cup { Timer(t) : t \in SyncKeys }

\* Coroutine x waits in the queue of the lock of Runner r.
InQueue(r, x) == \E i \in DOMAIN waiters[r] : waiters[r][i] = x

\* Coroutine x is inside `async with self.lock`, by its position.
Inside(r, x) ==
    /\ ~InQueue(r, x)
    /\ \/ x = Dispatch /\ dpc[r] \in {"lock", "write", "persist"}
       \/ x = Stats /\ spc[r] = "save"
       \/ \E t \in Syncs : x = Timer(t) /\ tpc[r][t] \in {"flush", "save"}

\* C16: the lock.  At most one of sync_data(), save_stats() and the flush
\* timers of a Runner is inside `async with self.lock`, and it is the one
\* the lock records; no coroutine waits for a lock it holds or that is
\* free, and none waits twice.  If the awaits under the lock return, every
\* coroutine that waits for the lock gets it (or is cancelled), and every
\* coroutine that holds it gives it up, also when the awaited call raises.
C16_LockExclusion ==
    /\ [](\A r \in Runners :
            /\ \A x \in LockUsers, y \in LockUsers :
                  (Inside(r, x) /\ Inside(r, y)) => x = y
            /\ \A x \in LockUsers : Inside(r, x) <=> lock[r] = x
            /\ \A x \in LockUsers :
                  InQueue(r, x) => lock[r] \notin {FreeLock, x}
            /\ \A i \in DOMAIN waiters[r], j \in DOMAIN waiters[r] :
                  waiters[r][i] = waiters[r][j] => i = j)
    /\ \A r \in Runners, x \in LockUsers :
          /\ InQueue(r, x) ~> ~InQueue(r, x)
          /\ (lock[r] = x) ~> (lock[r] # x)

C16_Witness ==
    \E r \in Runners, t \in Syncs :
        /\ lock[r] = Timer(t)
        /\ waiters[r] = << Dispatch, Stats >>
        /\ failures > 0

\* C17: a sync with insert_interval and without insert_size takes every
\* event into its EventCollection without an error: sync_data() is not
\* ended by the event, and its task does not fail on it.
C17_IntervalOnly ==
    \A r \in Runners, t \in Syncs :
        ( /\ syncs[t].insert_interval # None
          /\ syncs[t].insert_size = None
          /\ deq[r] > seed[r]
          /\ Touches(deq[r], t) ) =>
            /\ dpc[r] # "typeerror"
            /\ task[r] # "failed"

\* Event e is a ProgressEvent, or an Event of a table without syncs.
Unhandled(e) ==
    log[e].type = "progress" \/ SsList(log[e].table) = << >>

\* The step in which sync_data() of Runner r, at queue.get() or back from
\* _save_progress(), gets events that are all unhandled.
UnhandledStep(r) ==
    /\ dpc[r] \in {"get", "save"}
    /\ deq'[r] > deq[r]
    /\ \A e \in (deq[r] + 1)..deq'[r] : Unhandled(e)

\* C18: frame of sync_data() for a ProgressEvent and for an Event of a
\* table without syncs.  The ProgressEvent has its progress persisted; the
\* Event of a table without syncs leaves the persisted progress as it is;
\* both leave every EventCollection, every statistics counter and every
\* index unchanged, raise nothing, and sync_data() goes on.
C18_FrameOfUnhandled ==
    [][\A r \in Runners :
          UnhandledStep(r) =>
            /\ stored' = IF log[deq'[r]].type = "progress"
                          THEN deq'[r] ELSE stored
            /\ collections_map' = collections_map
            /\ stats' = stats
            /\ index' = index
            /\ synclog' = synclog
            /\ task' = task
            /\ lock' = lock
            /\ dpc'[r] = IF log[deq'[r]].type = "progress"
                          THEN "save" ELSE "get"]_vars

C18_Witness ==
    \E r \in Runners :
        /\ Len(log) >= 2
        /\ log[1].type = "create"
        /\ SsList(log[1].table) = << >>
        /\ log[2] = ProgressOnly
        /\ deq[r] = 2
        /\ dpc[r] = "get"
        /\ stored = 2
        /\ stats[r] = NoStats
        /\ \A t \in Syncs : index[t] = << >>

\* Runner r writes in the step: an index receives a write of r, or a flush
\* timer of r gets to its _save_progress() with a marker to persist.
Writes(r) ==
    \/ \E t \in Syncs :
          /\ Len(index'[t]) > Len(index[t])
          /\ index'[t][Len(index'[t])].by = r
    \/ \E t \in Syncs :
          /\ tpc[r][t] = "flush"
          /\ tpc'[r][t] = "save"
          /\ current_progress[r] # 0

\* C19: once the task of a Runner is cancelled, no coroutine of the Runner
\* writes to an index or to the progress store again.
C19_CancelStopsRunner ==
    [][\A r \in Runners : task[r] = "cancelled" => ~Writes(r)]_vars

\* The Runners of source id whose task was created and is neither done nor
\* cancelled.
Live(id) ==
    { r \in Runners : pk[r] = id /\ task[r] \in {"boot", "running"} }

\* C20: the registry.  However startup, remove_source and restart_source
\* interleave, every source has at most one Runner whose task is neither
\* done nor cancelled, and Scheduler._tasks records that task under the
\* primary key of the source.
C20_RegistryInvariant ==
    \A id \in Pks :
        /\ Cardinality(Live(id)) <= 1
        /\ \A r \in Live(id) : tasks[id] = r

====
